---- MODULE Spec2Model ----
(***************************************************************************)
(* Kenya Law MCP: the citation parser, the document resolver, the citation *)
(* validator and the ingestion orchestrator with its rate-limited fetcher. *)
(*                                                                         *)
(* Strings are sequences of one-character strings, so that trimming,       *)
(* regular-expression matching, LOWER() and LIKE are computed character by *)
(* character as the code computes them.                                    *)
(***************************************************************************)
EXTENDS Integers, Sequences, FiniteSets, TLC

VARIABLES
    legal_documents,   \* rows of the legal_documents table, in the store's row order
    legal_provisions,  \* rows of the legal_provisions table, in the store's row order
    call,              \* the query-time tool that ran last, with its input
    ret,               \* what that tool returned
    acts,              \* ingest: the catalog slice handed to fetchAndParseActs
    skipFetch,         \* ingest: the --skip-fetch flag
    seedFiles,         \* ingest: per act, the seed file on disk
    sourceFiles,       \* ingest: per act, the cached raw page on disk
    pc,                \* ingest: position of the process
    idx,               \* ingest: index of the act the for-loop is at
    attempt,           \* ingest: loop counter of fetchWithRateLimit
    now,               \* ingest: Date.now()
    lastRequestTime,   \* ingest: the rate limiter's process-wide timestamp
    counters,          \* ingest: processed, skipped, failed, totalProvisions, totalDefinitions
    results,           \* ingest: the per-act status table
    exitCode,          \* ingest: process exit status ("none" while running)
    requests           \* ingest: log of the outbound HTTP requests (act, attempt, time, status):
                       \* those of the act just handled, after the last one before them

queryVars == <<legal_documents, legal_provisions, call, ret>>
ingestVars == <<acts, skipFetch, seedFiles, sourceFiles, pc, idx, attempt,
                now, lastRequestTime, counters, results, exitCode, requests>>
vars == <<legal_documents, legal_provisions, call, ret,
          acts, skipFetch, seedFiles, sourceFiles, pc, idx, attempt,
          now, lastRequestTime, counters, results, exitCode, requests>>

-----------------------------------------------------------------------------
(* Characters and strings *)

UpperChars == <<"A","B","C","D","E","F","G","H","I","J","K","L","M",
                "N","O","P","Q","R","S","T","U","V","W","X","Y","Z">>
LowerChars == <<"a","b","c","d","e","f","g","h","i","j","k","l","m",
                "n","o","p","q","r","s","t","u","v","w","x","y","z">>
Digits == {"0","1","2","3","4","5","6","7","8","9"}

IsUpper(c) == \E i \in 1..26 : UpperChars[i] = c
IsLower(c) == \E i \in 1..26 : LowerChars[i] = c
IsAlpha(c) == IsUpper(c) \/ IsLower(c)
IsDigit(c) == c \in Digits
IsSpace(c) == c = " "

\* ASCII lower-casing of one character (SQLite LOWER(), the regex flag /i)
LowerChar(c) ==
    IF IsUpper(c) THEN LowerChars[CHOOSE i \in 1..26 : UpperChars[i] = c] ELSE c

\* SQLite LOWER(x) on a string
LOWER(s) == [i \in 1..Len(s) |-> LowerChar(s[i])]

\* the absent value of an optional string field, and SQL/JS null
undefined == <<"undefined">>
null == <<"null">>

RECURSIVE TrimStart(_)
TrimStart(s) ==
    IF s # <<>> /\ IsSpace(Head(s)) THEN TrimStart(Tail(s)) ELSE s

RECURSIVE TrimEnd(_)
TrimEnd(s) ==
    IF s # <<>> /\ IsSpace(s[Len(s)]) THEN TrimEnd(SubSeq(s, 1, Len(s) - 1)) ELSE s

\* String.prototype.trim()
Trim(s) == TrimEnd(TrimStart(s))

RECURSIVE Cat(_)
Cat(parts) == IF parts = <<>> THEN <<>> ELSE Head(parts) \o Cat(Tail(parts))

-----------------------------------------------------------------------------
(* A backtracking regular-expression matcher with JavaScript's priorities: *)
(* alternatives left to right, greedy quantifiers longest first, lazy ones *)
(* shortest first; the first complete match found is the result.  All      *)
(* patterns of the program are anchored with ^...$ and carry the flag /i.  *)
(* A pattern is a sequence of items:                                       *)
(*   [t |-> "lit", w]            a literal, compared ignoring case         *)
(*   [t |-> "exact", w]          a literal of a pattern without /i         *)
(*   [t |-> "alt", alts]         (?:a|b|...), each alternative a pattern   *)
(*   [t |-> "opt", body]         (?:body)? , greedy                        *)
(*   [t |-> "rep", cls, min, greedy]   cls{min,} over a character class    *)
(*   [t |-> "open", g] / [t |-> "close", g]   capture group g              *)
(*   [t |-> "end"]               $                                         *)
(* A position is the number of characters consumed so far.                 *)

InClass(cls, c) ==
    CASE cls = "space" -> IsSpace(c)
      [] cls = "digit" -> IsDigit(c)
      [] cls = "alpha" -> IsAlpha(c)
      [] cls = "comma_semi" -> c \in {",", ";"}
      [] cls = "dot" -> c = "."
      [] cls = "nonunderscore" -> c # "_"
      [] cls = "any" -> TRUE

LitAt(w, s, pos) ==
    /\ pos + Len(w) <= Len(s)
    /\ \A i \in 1..Len(w) : LowerChar(s[pos + i]) = LowerChar(w[i])

RECURSIVE RunLength(_, _, _)
\* how many consecutive characters of class cls follow position pos
RunLength(cls, s, pos) ==
    IF pos < Len(s) /\ InClass(cls, s[pos + 1]) THEN 1 + RunLength(cls, s, pos + 1) ELSE 0

NoMatch == [ok |-> FALSE, caps |-> <<>>]

RECURSIVE Match(_, _, _, _)
RECURSIVE TryAlts(_, _, _, _, _, _)
RECURSIVE TryCounts(_, _, _, _, _, _, _)

Match(items, s, pos, caps) ==
    IF items = <<>> THEN [ok |-> TRUE, caps |-> caps]
    ELSE LET it == Head(items)
             rest == Tail(items)
         IN CASE it.t = "lit" ->
                    IF LitAt(it.w, s, pos) THEN Match(rest, s, pos + Len(it.w), caps)
                    ELSE NoMatch
              [] it.t = "exact" ->
                    IF pos + Len(it.w) <= Len(s) /\ SubSeq(s, pos + 1, pos + Len(it.w)) = it.w
                    THEN Match(rest, s, pos + Len(it.w), caps)
                    ELSE NoMatch
              [] it.t = "alt" -> TryAlts(it.alts, 1, rest, s, pos, caps)
              [] it.t = "opt" ->
                    LET taken == Match(it.body \o rest, s, pos, caps)
                    IN IF taken.ok THEN taken ELSE Match(rest, s, pos, caps)
              [] it.t = "rep" ->
                    LET mx == IF it.max = 1 THEN (IF RunLength(it.cls, s, pos) > 0 THEN 1 ELSE 0)
                              ELSE RunLength(it.cls, s, pos)
                    IN IF mx < it.min THEN NoMatch
                       ELSE IF it.greedy THEN TryCounts(rest, s, pos, caps, mx, it.min, -1)
                       ELSE TryCounts(rest, s, pos, caps, it.min, mx, 1)
              [] it.t = "open" ->
                    Match(rest, s, pos, [caps EXCEPT ![it.g] = <<pos + 1, @[2]>>])
              [] it.t = "close" ->
                    Match(rest, s, pos, [caps EXCEPT ![it.g] = <<@[1], pos>>])
              [] it.t = "end" ->
                    IF pos = Len(s) THEN Match(rest, s, pos, caps) ELSE NoMatch

TryAlts(alts, i, rest, s, pos, caps) ==
    IF i > Len(alts) THEN NoMatch
    ELSE LET r == Match(alts[i] \o rest, s, pos, caps)
         IN IF r.ok THEN r ELSE TryAlts(alts, i + 1, rest, s, pos, caps)

\* try the repetition counts k, k+step, ... up to and including last
TryCounts(rest, s, pos, caps, k, last, step) ==
    LET r == Match(rest, s, pos + k, caps)
    IN IF r.ok THEN r
       ELSE IF k = last THEN NoMatch
       ELSE TryCounts(rest, s, pos, caps, k + step, last, step)

Lit(w) == [t |-> "lit", w |-> w]
Alt(alts) == [t |-> "alt", alts |-> alts]
Opt(body) == [t |-> "opt", body |-> body]
\* cls* , cls+ (greedy), cls+? (lazy), cls?
Star(cls) == [t |-> "rep", cls |-> cls, min |-> 0, max |-> 0, greedy |-> TRUE]
Plus(cls) == [t |-> "rep", cls |-> cls, min |-> 1, max |-> 0, greedy |-> TRUE]
LazyPlus(cls) == [t |-> "rep", cls |-> cls, min |-> 1, max |-> 0, greedy |-> FALSE]
Maybe(cls) == [t |-> "rep", cls |-> cls, min |-> 0, max |-> 1, greedy |-> TRUE]
One(cls) == [t |-> "rep", cls |-> cls, min |-> 1, max |-> 1, greedy |-> TRUE]
Exact(w) == [t |-> "exact", w |-> w]
Open(g) == [t |-> "open", g |-> g]
Close(g) == [t |-> "close", g |-> g]
End == [t |-> "end"]

\* String.prototype.match(re) for an anchored pattern with two groups:
\* [ok, caps] where caps[g] = <<first, last>> character of group g
RegexMatch(pattern, s) == Match(pattern, s, 0, <<<<1, 0>>, <<1, 0>>>>)

Group(m, s, g) == SubSeq(s, m.caps[g][1], m.caps[g][2])


-----------------------------------------------------------------------------
(* parseCitation *)

W_Section == <<"S","e","c","t","i","o","n">>
W_s == <<"s">>
W_sec == <<"s","e","c">>
W_Article == <<"A","r","t","i","c","l","e">>
W_Art == <<"A","r","t">>
W_of == <<"o","f">>
W_the == <<"t","h","e">>

\* (?:Section|s|sec\.?)
SectionKeyword == Alt(<< <<Lit(W_Section)>>, <<Lit(W_s)>>, <<Lit(W_sec), Maybe("dot")>> >>)
\* (?:Article|Art\.?)
ArticleKeyword == Alt(<< <<Lit(W_Article)>>, <<Lit(W_Art), Maybe("dot")>> >>)
\* (\d+[A-Za-z]*) as group g
NumberGroup(g) == <<Open(g), Plus("digit"), Star("alpha"), Close(g)>>

\* /^KEYWORD\s*(\d+[A-Za-z]*)\s*(?:,|of(?:\s+the)?)\s+(.+)$/i
ParseLeading(keyword) ==
    <<keyword, Star("space")>> \o NumberGroup(1) \o
    <<Star("space"),
      Alt(<< <<Lit(<<",">>)>>, <<Lit(W_of), Opt(<<Plus("space"), Lit(W_the)>>)>> >>),
      Plus("space"), Open(2), Plus("any"), Close(2), End>>

\* /^(.+?)[,;]?\s*KEYWORD\s*(\d+[A-Za-z]*)$/i
ParseTrailing(keyword) ==
    <<Open(1), LazyPlus("any"), Close(1), Maybe("comma_semi"), Star("space"),
      keyword, Star("space")>> \o NumberGroup(2) \o <<End>>

\* .replace(/^the\s+/i, '')
StripThe(s) ==
    IF LitAt(W_the, s, 0) /\ RunLength("space", s, 3) >= 1
    THEN SubSeq(s, 3 + RunLength("space", s, 3) + 1, Len(s))
    ELSE s

Parsed(documentRef, sectionRef) ==
    [isNull |-> FALSE, documentRef |-> documentRef, sectionRef |-> sectionRef]

\* the rules tried trailing first
parseCitation_TrailingFirst(citation) ==
    LET trimmed == Trim(citation)
        secFirst == RegexMatch(ParseLeading(SectionKeyword), trimmed)
        artFirst == RegexMatch(ParseLeading(ArticleKeyword), trimmed)
        secLast == RegexMatch(ParseTrailing(SectionKeyword), trimmed)
        artLast == RegexMatch(ParseTrailing(ArticleKeyword), trimmed)
    IN IF secLast.ok
       THEN Parsed(Trim(Group(secLast, trimmed, 1)), Group(secLast, trimmed, 2))
       ELSE IF artLast.ok
       THEN Parsed(Trim(Group(artLast, trimmed, 1)), Group(artLast, trimmed, 2))
       ELSE IF secFirst.ok
       THEN Parsed(StripThe(Trim(Group(secFirst, trimmed, 2))), Group(secFirst, trimmed, 1))
       ELSE IF artFirst.ok
       THEN Parsed(StripThe(Trim(Group(artFirst, trimmed, 2))), Group(artFirst, trimmed, 1))
       ELSE Parsed(trimmed, undefined)

parseCitation(citation) ==
    LET trimmed == Trim(citation)
        secFirst == RegexMatch(ParseLeading(SectionKeyword), trimmed)
        artFirst == RegexMatch(ParseLeading(ArticleKeyword), trimmed)
        secLast == RegexMatch(ParseTrailing(SectionKeyword), trimmed)
        artLast == RegexMatch(ParseTrailing(ArticleKeyword), trimmed)
    IN IF secFirst.ok
       THEN Parsed(StripThe(Trim(Group(secFirst, trimmed, 2))), Group(secFirst, trimmed, 1))
       ELSE IF artFirst.ok
       THEN Parsed(StripThe(Trim(Group(artFirst, trimmed, 2))), Group(artFirst, trimmed, 1))
       ELSE IF secLast.ok
       THEN Parsed(Trim(Group(secLast, trimmed, 1)), Group(secLast, trimmed, 2))
       ELSE IF artLast.ok
       THEN Parsed(Trim(Group(artLast, trimmed, 1)), Group(artLast, trimmed, 2))
       ELSE Parsed(trimmed, undefined)

-----------------------------------------------------------------------------
(* The store's lookups.  A table is the sequence of its rows in the order  *)
(* the store returns them; .get() and LIMIT 1 return the first row of that *)
(* order that satisfies the WHERE clause (no query has an ORDER BY).       *)

\* index of the first of the rows satisfying the WHERE clause (hits holds
\* their indexes), 0 when there is none
FirstRow(hits) ==
    IF hits = {} THEN 0 ELSE CHOOSE i \in hits : \A j \in hits : i <= j

RECURSIVE Like(_, _)
\* SQLite's  s LIKE pattern : % is any run of characters, _ any one
\* character, and ASCII letters compare ignoring case
Like(pattern, s) ==
    IF pattern = <<>> THEN s = <<>>
    ELSE IF Head(pattern) = "%"
         THEN Like(Tail(pattern), s) \/ (s # <<>> /\ Like(pattern, Tail(s)))
    ELSE IF s = <<>> THEN FALSE
    ELSE IF Head(pattern) = "_" THEN Like(Tail(pattern), Tail(s))
    ELSE LowerChar(Head(pattern)) = LowerChar(Head(s)) /\ Like(Tail(pattern), Tail(s))

\* `%${trimmed}%`
Contains(trimmed) == <<"%">> \o trimmed \o <<"%">>

resolveDocumentId(db, input) ==
    LET trimmed == Trim(input)
        directMatch == FirstRow({ i \in 1..Len(db) : db[i].id = trimmed })
        exactTitle == FirstRow({ i \in 1..Len(db) : LOWER(db[i].title) = LOWER(trimmed) })
        shortNameMatch == FirstRow({ i \in 1..Len(db) : LOWER(db[i].short_name) = LOWER(trimmed) })
        titleResult == FirstRow({ i \in 1..Len(db) :
                          \/ Like(Contains(trimmed), db[i].title)
                          \/ Like(Contains(trimmed), db[i].short_name)
                          \/ Like(Contains(trimmed), db[i].title_en) })
        lowerResult == FirstRow({ i \in 1..Len(db) :
                          \/ Like(LOWER(Contains(trimmed)), LOWER(db[i].title))
                          \/ Like(LOWER(Contains(trimmed)), LOWER(db[i].short_name))
                          \/ Like(LOWER(Contains(trimmed)), LOWER(db[i].title_en)) })
    IN IF trimmed = <<>> THEN null
       ELSE IF directMatch # 0 THEN db[directMatch].id
       ELSE IF exactTitle # 0 THEN db[exactTitle].id
       ELSE IF shortNameMatch # 0 THEN db[shortNameMatch].id
       ELSE IF titleResult # 0 THEN db[titleResult].id
       ELSE IF lowerResult # 0 THEN db[lowerResult].id
       ELSE null


-----------------------------------------------------------------------------
(* The stores and the inputs the query-time tools are run on *)

MaxDocuments == 2
MaxProvisions == 2

Document(id, title, short_name, title_en, status) ==
    [id |-> id, title |-> title, short_name |-> short_name, title_en |-> title_en,
     status |-> status]

DocumentPool ==
    { Document(<<"d","p","a">>, <<"D","a","t","a"," ","A","c","t">>, <<"D","P","A">>, <<"D","a","t","a"," ","A","c","t">>, "in_force"),
      Document(<<"c","m","a">>, <<"C","y","b","e","r"," ","A","c","t">>, <<"C","M","A">>, <<"C","y","b","e","r"," ","A","c","t">>, "partially_suspended"),
      Document(<<"o","l","d">>, <<"O","l","d"," ","A","c","t">>, <<"O","A">>, <<"O","l","d"," ","A","c","t">>, "repealed"),
      Document(<<"t","a","x">>, <<"T","a","x"," ","A","c","t">>, <<"T","A">>, <<"T","a","x"," ","A","c","t">>, "amended"),
      Document(<<"n","e","w">>, <<"N","e","w"," ","A","c","t">>, <<"N","A">>, <<"N","e","w"," ","A","c","t">>, "not_yet_in_force"),
      Document(<<"d","a","r">>, <<"d","a","t","a"," ","r","u","l","e","s">>, <<"D","R">>, <<"d","a","t","a"," ","r","u","l","e","s">>, "in_force") }

Provision(document_id, provision_ref, section) ==
    [document_id |-> document_id, provision_ref |-> provision_ref, section |-> section]

ProvisionPool ==
    { Provision(<<"d","p","a">>, <<"s","5">>, <<"5">>),
      Provision(<<"d","p","a">>, <<"a","r","t","5">>, <<"5">>),
      Provision(<<"d","p","a">>, <<"5">>, <<"V">>),
      Provision(<<"d","p","a">>, <<"s","e","c","5">>, <<"5">>),
      Provision(<<"o","l","d">>, <<"s","5">>, <<"5">>) }

\* the sequences without repetition of at most n elements of S
Rows(S, n) ==
    UNION { { r \in [1..k -> S] : \A i, j \in 1..k : i # j => r[i] # r[j] } : k \in 0..n }

DocumentRefs ==
    { <<"D","a","t","a"," ","A","c","t">>, <<"D","P","A">>, <<"d","p","a">>, <<"d","a","t","a"," ","a","c","t">>, <<"D","a","t","a">>, <<"A","c","t">>, <<"N","o","p","e">>, <<"D","_","t","a">> }

CitationForms(ref) ==
    { ref,
      Cat(<<W_Section, <<" ","5",","," ">>, ref>>),
      Cat(<<W_s, <<" ","9",","," ">>, ref>>),
      Cat(<<W_Section, <<" ","5"," ","o","f"," ","t","h","e"," ">>, ref>>),
      Cat(<<ref, <<","," ">>, W_Section, <<" ","5">>>>),
      Cat(<<W_Article, <<" ","5",","," ">>, ref>>),
      Cat(<<ref, <<" ">>, W_Art, <<" ","5">>>>) }

Citations ==
    UNION { CitationForms(ref) : ref \in DocumentRefs } \cup { <<>>, <<" ", " ">> }

\* parseCitation and resolveDocumentId are pure: their values on the inputs of
\* the model are tabulated once
ParsedCitations == [c \in Citations |-> parseCitation(c)] @@ <<>>

ResolverInputs == DocumentRefs \cup { <<>>, <<" ">>, <<" ","d","p","a"," ">>, <<"%">> }

------------------------------------------------------------------------

Stores == Rows(DocumentPool, MaxDocuments)

ResolvedIds ==
    [db \in Stores |->
        [input \in ResolverInputs \cup { ParsedCitations[c].documentRef : c \in Citations }
            |-> resolveDocumentId(db, input)] @@ <<>>] @@ <<>>

-----
(* validateCitationTool *)

Warning(msg, args) == [msg |-> msg, args |-> args]

StatusWarnings_NoAmended(status) ==
    IF status = "repealed"
    THEN <<Warning("WARNING: This statute has been repealed.", <<>>)>>
    ELSE IF status = "partially_suspended"
    THEN <<Warning("Note: Certain sections of this statute have been suspended. Verify which sections are in force.", <<>>)>>
    ELSE <<>>

\* the status advisory pushed onto warnings
StatusWarnings(status) ==
    IF status = "repealed"
    THEN <<Warning("WARNING: This statute has been repealed.", <<>>)>>
    ELSE IF status = "amended"
    THEN <<Warning("Note: This statute has been amended. Verify you are referencing the current version.", <<>>)>>
    ELSE IF status = "partially_suspended"
    THEN <<Warning("Note: Certain sections of this statute have been suspended. Verify which sections are in force.", <<>>)>>
    ELSE <<>>

ProvisionLookup_AnyDocument(provisions, docId, sectionRef) ==
    FirstRow({ i \in 1..Len(provisions) :
        \/ provisions[i].provision_ref = sectionRef
        \/ provisions[i].provision_ref = <<"s">> \o sectionRef
        \/ provisions[i].provision_ref = <<"a","r","t">> \o sectionRef
        \/ provisions[i].section = sectionRef })

\* SELECT provision_ref FROM legal_provisions WHERE document_id = ? AND
\*   (provision_ref = ? OR provision_ref = ? OR provision_ref = ? OR section = ?)
ProvisionLookup(provisions, docId, sectionRef) ==
    FirstRow({ i \in 1..Len(provisions) :
        /\ provisions[i].document_id = docId
        /\ \/ provisions[i].provision_ref = sectionRef
           \/ provisions[i].provision_ref = <<"s">> \o sectionRef
           \/ provisions[i].provision_ref = <<"a","r","t">> \o sectionRef
           \/ provisions[i].section = sectionRef })

Result(valid, citation, normalized, document_id, document_title, provision_ref, status, warnings) ==
    [valid |-> valid, citation |-> citation, normalized |-> normalized,
     document_id |-> document_id, document_title |-> document_title,
     provision_ref |-> provision_ref, status |-> status, warnings |-> warnings]

\* the return of the branch  if (!provision)
ProvisionNotFound_OnlyOwnWarning(citation, doc, sectionRef, warnings) ==
    Result(FALSE, citation, undefined, doc.id, doc.title, undefined, "undefined",
           <<Warning("Provision not found in", <<sectionRef, doc.title>>)>>)

ProvisionNotFound(citation, doc, sectionRef, warnings) ==
    Result(FALSE, citation, undefined, doc.id, doc.title, undefined, "undefined",
           warnings \o <<Warning("Provision not found in", <<sectionRef, doc.title>>)>>)

validateCitationTool(documents, provisions, citation) ==
    LET parsed == ParsedCitations[citation]  \* parseCitation(input.citation)
        docId == ResolvedIds[documents][parsed.documentRef]  \* resolveDocumentId(db, parsed.documentRef)
        doc == documents[FirstRow({ i \in 1..Len(documents) : documents[i].id = docId })]
        warnings == StatusWarnings(doc.status)
        provision == ProvisionLookup(provisions, docId, parsed.sectionRef)
    IN IF parsed.isNull
       THEN Result(FALSE, citation, undefined, undefined, undefined, undefined, "undefined",
                   <<Warning("Could not parse citation format", <<>>)>>)
       ELSE IF docId = null
       THEN Result(FALSE, citation, undefined, undefined, undefined, undefined, "undefined",
                   <<Warning("Document not found: ", <<parsed.documentRef>>)>>)
       ELSE IF parsed.sectionRef # undefined
       THEN IF provision = 0
            THEN ProvisionNotFound(citation, doc, parsed.sectionRef, warnings)
            ELSE Result(TRUE, citation,
                        Cat(<<W_Section, <<" ">>, parsed.sectionRef, <<",", " ">>, doc.title>>),
                        docId, doc.title, provisions[provision].provision_ref, doc.status, warnings)
       ELSE Result(TRUE, citation, doc.title, docId, doc.title, undefined, doc.status, warnings)

-----------------------------------------------------------------------------
(* Query-time operations.  The tools read the store and write nothing, so  *)
(* a call leaves behind only its own result: a behaviour is one store and  *)
(* one call of one tool on it.                                             *)

QueryInit ==
    /\ legal_documents \in Stores
    /\ legal_provisions \in Rows(ProvisionPool, MaxProvisions)
    /\ call = [tool |-> "none", input |-> <<>>]
    /\ ret = null

ValidateCitation ==
    \E citation \in Citations :
        /\ call.tool = "none"
        /\ call' = [tool |-> "validate_citation", input |-> citation]
        /\ ret' = validateCitationTool(legal_documents, legal_provisions, citation)
        /\ UNCHANGED <<legal_documents, legal_provisions>>
        /\ UNCHANGED ingestVars

ResolveDocument ==
    \E input \in ResolverInputs :
        /\ call.tool = "none"
        /\ call' = [tool |-> "resolveDocumentId", input |-> input]
        /\ ret' = ResolvedIds[legal_documents][input]  \* resolveDocumentId(db, input)
        /\ UNCHANGED <<legal_documents, legal_provisions>>
        /\ UNCHANGED ingestVars

IngestIdle ==
    /\ acts = <<>>
    /\ skipFetch = FALSE
    /\ seedFiles = <<>>
    /\ sourceFiles = <<>>
    /\ pc = "idle"
    /\ idx = 0
    /\ attempt = 0
    /\ now = 0
    /\ lastRequestTime = 0
    /\ counters = <<>>
    /\ results = <<>>
    /\ exitCode = "none"
    /\ requests = <<>>

Init == QueryInit /\ IngestIdle

Next == ValidateCitation \/ ResolveDocument

Spec == Init /\ [][Next]_vars


-----------------------------------------------------------------------------------------------------------------------------------------------------
(* Ingestion: main, fetchAndParseActs, fetchWithRateLimit, rateLimit.      *)
(* The process is single-threaded; an action is the code between two of    *)
(* its awaits, or one iteration of the for-loop over the acts.             *)

MaxActs == 2        \* acts in the catalog slice (--limit)
StartTime == 1000   \* Date.now() when the process starts, in ms
Latency == 100      \* ms from issuing a request to its response (or its failure)

MIN_DELAY_MS == 500
maxRetries == 3

\* the statuses the upstream answers with
HttpStatuses == {200, 404, 429, 503}

\* what parseKenyaLawHtml returns for the page of an act: the sizes of
\* parsed.provisions and parsed.definitions
ExtractorResults == { [provisions |-> 2, definitions |-> 1] }

\* files of data/seed: none, a seed left by an earlier run (a ParsedAct, or
\* content JSON.parse rejects), a seed written by this run, or the remains
\* of a write of this run that failed
NoSeed == [state |-> "absent", provisions |-> 0, definitions |-> 0, writer |-> "none"]
EarlierSeed == [state |-> "ok", provisions |-> 1, definitions |-> 1, writer |-> "earlier run"]
EarlierBrokenSeed == [state |-> "broken", provisions |-> 0, definitions |-> 0, writer |-> "earlier run"]
WrittenSeed(parsed) ==
    [state |-> "ok", provisions |-> parsed.provisions, definitions |-> parsed.definitions,
     writer |-> "this run"]
BrokenSeed == [state |-> "broken", provisions |-> 0, definitions |-> 0, writer |-> "this run"]

\* fs.existsSync(seedFile), fs.existsSync(sourceFile)
SeedExists(a) == seedFiles[a].state # "absent"
SourceExists(a) == sourceFiles[a] # "absent"

\* what earlier runs can have left of an act in data/seed and data/source:
\* nothing, the page alone, or the page and a seed (a seed is only written
\* once the page is there)
EarlierFiles ==
    { [seed |-> NoSeed, source |-> "absent"],
      [seed |-> NoSeed, source |-> "earlier run"],
      [seed |-> EarlierSeed, source |-> "earlier run"],
      [seed |-> EarlierBrokenSeed, source |-> "earlier run"] }

IngestInit ==
    /\ \E n \in 1..MaxActs :
          /\ acts = [i \in 1..n |-> i]
          /\ \E files \in [1..n -> EarlierFiles] :
                /\ seedFiles = [i \in 1..n |-> files[i].seed]
                /\ sourceFiles = [i \in 1..n |-> files[i].source]
    /\ skipFetch \in BOOLEAN
    /\ pc = "loop"
    /\ idx = 1
    /\ attempt = 0
    /\ now = StartTime
    /\ lastRequestTime = 0
    /\ counters = [processed |-> 0, skipped |-> 0, failed |-> 0,
                   totalProvisions |-> 0, totalDefinitions |-> 0]
    /\ results = <<>>
    /\ exitCode = "none"
    /\ requests = <<>>

Entry(act, provisions, definitions, status) ==
    [act |-> act, provisions |-> provisions, definitions |-> definitions, status |-> status]

\* `HTTP ${result.status}`
HttpStatusText(status) ==
    CASE status = 404 -> "HTTP 404"
      [] status = 429 -> "HTTP 429"
      [] status = 503 -> "HTTP 503"
      [] status = 200 -> "HTTP 200"

\* results.push(entry), the counters, and on to the next act
NextAct(entry, skippedMore, failedMore) ==
    /\ results' = Append(results, entry)
    /\ counters' = [processed |-> counters.processed + 1,
                    skipped |-> counters.skipped + skippedMore,
                    failed |-> counters.failed + failedMore,
                    totalProvisions |-> counters.totalProvisions + entry.provisions,
                    totalDefinitions |-> counters.totalDefinitions + entry.definitions]
    /\ idx' = idx + 1
    /\ pc' = "loop"

\* the catch block of the loop body: status `ERROR: ${msg.substring(0, 80)}`,
\* msg the message of the exception that was thrown
CaughtError(msg) == NextAct(Entry(acts[idx], 0, 0, msg), 0, 1)

AtAct == pc = "loop" /\ idx <= Len(acts)

\* the log forgets all but the latest request when the loop moves on
Latest(log) == IF log = <<>> THEN <<>> ELSE <<log[Len(log)]>>

\* if (skipFetch && fs.existsSync(seedFile)) { ... continue; }
SkipCachedSeed ==
    /\ AtAct
    /\ skipFetch /\ SeedExists(idx)
    /\ seedFiles[idx].state = "ok"
    /\ NextAct(Entry(acts[idx], seedFiles[idx].provisions, seedFiles[idx].definitions, "cached"), 1, 0)
    /\ UNCHANGED <<acts, skipFetch, seedFiles, sourceFiles, attempt, now, lastRequestTime,
                   exitCode>>
    /\ requests' = Latest(requests)

\* the same branch when JSON.parse(fs.readFileSync(seedFile)) throws: the
\* branch is outside the try block, fetchAndParseActs rejects, and
\* main().catch calls process.exit(1)
CachedSeedUnreadable ==
    /\ AtAct
    /\ skipFetch /\ SeedExists(idx)
    /\ seedFiles[idx].state = "broken"
    /\ pc' = "done"
    /\ exitCode' = "1"
    /\ requests' = Latest(requests)
    /\ UNCHANGED <<acts, skipFetch, seedFiles, sourceFiles, idx, attempt, now, lastRequestTime,
                   counters, results>>

\* the seed file opened for writing before the extractor runs
ExtractAndPersist_SeedOpenedFirst ==
    \/ /\ CaughtError("ERROR: extractor")
       /\ seedFiles' = [seedFiles EXCEPT ![idx] = BrokenSeed]
    \/ \E parsed \in ExtractorResults :
          \/ /\ seedFiles' = [seedFiles EXCEPT ![idx] = WrittenSeed(parsed)]
             /\ NextAct(Entry(acts[idx], parsed.provisions, parsed.definitions, "OK"), 0, 0)
          \/ /\ seedFiles' = [seedFiles EXCEPT ![idx] = BrokenSeed]
             /\ CaughtError("ERROR: write")

\* parseKenyaLawHtml(html, act), fs.writeFileSync(seedFile, ...), results.push
ExtractAndPersist ==
    \/ \* the extractor throws
       /\ CaughtError("ERROR: extractor")
       /\ UNCHANGED seedFiles
    \/ \E parsed \in ExtractorResults :
          \/ /\ seedFiles' = [seedFiles EXCEPT ![idx] = WrittenSeed(parsed)]
             /\ NextAct(Entry(acts[idx], parsed.provisions, parsed.definitions, "OK"), 0, 0)
          \/ \* writing the seed throws, with the file untouched or cut short
             /\ seedFiles' \in { seedFiles, [seedFiles EXCEPT ![idx] = BrokenSeed] }
             /\ CaughtError("ERROR: write")

\* if (fs.existsSync(sourceFile) && skipFetch) { html = fs.readFileSync(...) }
UseCachedPage ==
    /\ AtAct
    /\ ~(skipFetch /\ SeedExists(idx))
    /\ SourceExists(idx) /\ skipFetch
    /\ ExtractAndPersist
    /\ UNCHANGED <<acts, skipFetch, sourceFiles, attempt, now, lastRequestTime, exitCode>>
    /\ requests' = Latest(requests)

\* await fetchWithRateLimit(act.url) up to its first request: rateLimit()
RateLimit ==
    /\ AtAct
    /\ ~(skipFetch /\ SeedExists(idx))
    /\ ~(SourceExists(idx) /\ skipFetch)
    /\ LET elapsed == now - lastRequestTime
           resumed == IF elapsed < MIN_DELAY_MS THEN now + (MIN_DELAY_MS - elapsed) ELSE now
       IN /\ now' = resumed
          /\ lastRequestTime' = resumed
    /\ attempt' = 0
    /\ pc' = "request"
    /\ UNCHANGED <<acts, skipFetch, seedFiles, sourceFiles, idx, counters, results, exitCode>>
    /\ requests' = Latest(requests)

\* the request issued now, with the status it is answered with (0: none)
Logged(status) ==
    LET entry == [act |-> acts[idx], attempt |-> attempt, time |-> now, status |-> status]
    IN Append(requests, entry)

ShouldRetry_Always(status, n) == status = 429 \/ status >= 500

\* if (response.status === 429 || response.status >= 500) { if (attempt < maxRetries)
ShouldRetry(status, n) == (status = 429 \/ status >= 500) /\ n < maxRetries

Backoff_Fixed(n) == 2000

\* Math.pow(2, attempt + 1) * 1000
Backoff(n) == (2 ^ (n + 1)) * 1000

IsFailure_ClientErrorOnly(status) == status >= 400 /\ status < 500

\* if (result.status !== 200)
IsFailure(status) == status # 200

\* a request answered with 429 or 5xx below the retry ceiling: back off, continue
RequestRetried ==
    /\ pc = "request"
    /\ \E status \in HttpStatuses :
          /\ ShouldRetry(status, attempt)
          /\ requests' = Logged(status)
    /\ now' = now + Latency + Backoff(attempt)
    /\ attempt' = attempt + 1
    /\ UNCHANGED <<acts, skipFetch, seedFiles, sourceFiles, pc, idx, lastRequestTime, counters,
                   results, exitCode>>

\* fetch() rejects (network error): the exception lands in the catch block
RequestThrows ==
    /\ pc = "request"
    /\ requests' = Logged(0)
    /\ now' = now + Latency
    /\ CaughtError("ERROR: fetch")
    /\ UNCHANGED <<acts, skipFetch, seedFiles, sourceFiles, attempt, lastRequestTime, exitCode>>

\* fetchWithRateLimit returns a response that is not 200
ResponseNotOk ==
    /\ pc = "request"
    /\ \E status \in HttpStatuses :
          /\ ~ShouldRetry(status, attempt)
          /\ IsFailure(status)
          /\ requests' = Logged(status)
          /\ NextAct(Entry(acts[idx], 0, 0, HttpStatusText(status)), 0, 1)
    /\ now' = now + Latency
    /\ UNCHANGED <<acts, skipFetch, seedFiles, sourceFiles, attempt, lastRequestTime, exitCode>>

\* fetchWithRateLimit returns 200: the page is written, parsed and seeded
ResponseOk ==
    /\ pc = "request"
    /\ \E status \in HttpStatuses :
          /\ ~ShouldRetry(status, attempt)
          /\ ~IsFailure(status)
          /\ requests' = Logged(status)
    /\ now' = now + Latency
    /\ \/ /\ sourceFiles' = [sourceFiles EXCEPT ![idx] = "this run"]
          /\ ExtractAndPersist
       \/ \* fs.writeFileSync(sourceFile, html) throws
          /\ CaughtError("ERROR: write")
          /\ UNCHANGED <<seedFiles, sourceFiles>>
    /\ UNCHANGED <<acts, skipFetch, attempt, lastRequestTime, exitCode>>

\* the loop is over: the report is printed and main() resolves
Report ==
    /\ pc = "loop" /\ idx > Len(acts)
    /\ pc' = "done"
    /\ exitCode' = "0"
    /\ UNCHANGED <<acts, skipFetch, seedFiles, sourceFiles, idx, attempt, now, lastRequestTime,
                   counters, results>>
    /\ requests' = Latest(requests)

QueryIdle ==
    /\ legal_documents = <<>>
    /\ legal_provisions = <<>>
    /\ call = [tool |-> "none", input |-> <<>>]
    /\ ret = null

InitIngest == IngestInit /\ QueryIdle

NextIngest ==
    \/ (SkipCachedSeed /\ UNCHANGED queryVars)
    \/ (CachedSeedUnreadable /\ UNCHANGED queryVars)
    \/ (UseCachedPage /\ UNCHANGED queryVars)
    \/ (RateLimit /\ UNCHANGED queryVars)
    \/ (RequestRetried /\ UNCHANGED queryVars)
    \/ (RequestThrows /\ UNCHANGED queryVars)
    \/ (ResponseNotOk /\ UNCHANGED queryVars)
    \/ (ResponseOk /\ UNCHANGED queryVars)
    \/ (Report /\ UNCHANGED queryVars)

SpecIngest == InitIngest /\ [][NextIngest]_vars

\* the event loop runs every continuation that is ready: a timer that was
\* set fires, and a request that was issued is answered or fails
SpecIngestFair == SpecIngest /\ WF_vars(NextIngest)

-----------------------------------------------------------------------------
(* formatCitationTool *)

\* /^KEYWORD\s*(\d+[A-Za-z]*)\s*[,;]?\s+(.+)$/i
FormatLeading(keyword) ==
    <<keyword, Star("space")>> \o NumberGroup(1) \o
    <<Star("space"), Maybe("comma_semi"), Plus("space"), Open(2), Plus("any"), Close(2), End>>

\* /^(.+?)[,;]?\s*KEYWORD\s*(\d+[A-Za-z]*)$/i
FormatTrailing(keyword) ==
    <<Open(1), LazyPlus("any"), Close(1), Maybe("comma_semi"), Star("space"),
      keyword, Star("space")>> \o NumberGroup(2) \o <<End>>

RECURSIVE BeforeParen(_)
\* law.split('(')[0]
BeforeParen(s) ==
    IF s = <<>> \/ Head(s) = "(" THEN <<>> ELSE <<Head(s)>> \o BeforeParen(Tail(s))

\* const prefix = isArticle ? 'Article' : 'Section'
Prefix(isArticle) == IF isArticle THEN W_Article ELSE W_Section

formatCitationTool(citation, format) ==
    LET fmt == IF format = "undefined" THEN "full" ELSE format
        trimmed == Trim(citation)
        secFirst == RegexMatch(FormatLeading(SectionKeyword), trimmed)
        secLast == RegexMatch(FormatTrailing(SectionKeyword), trimmed)
        artFirst == RegexMatch(FormatLeading(ArticleKeyword), trimmed)
        artLast == RegexMatch(FormatTrailing(ArticleKeyword), trimmed)
        section == IF secFirst.ok THEN Group(secFirst, trimmed, 1)
                   ELSE IF secLast.ok THEN Group(secLast, trimmed, 2)
                   ELSE IF artFirst.ok THEN Group(artFirst, trimmed, 1)
                   ELSE IF artLast.ok THEN Group(artLast, trimmed, 2)
                   ELSE undefined
        law == IF secFirst.ok THEN Group(secFirst, trimmed, 2)
               ELSE IF secLast.ok THEN Group(secLast, trimmed, 1)
               ELSE IF artFirst.ok THEN Group(artFirst, trimmed, 2)
               ELSE IF artLast.ok THEN Group(artLast, trimmed, 1)
               ELSE trimmed
        isArticle == artFirst.ok \/ artLast.ok
        prefix == Prefix(isArticle)
        formatted ==
            CASE fmt = "short" ->
                    IF section # undefined
                    THEN Cat(<<W_s, <<" ">>, section, <<",", " ">>, Trim(BeforeParen(law))>>)
                    ELSE law
              [] fmt = "pinpoint" ->
                    IF section # undefined THEN Cat(<<W_s, <<" ">>, section>>) ELSE law
              [] OTHER ->
                    IF section # undefined
                    THEN Cat(<<prefix, <<" ">>, section, <<",", " ">>, law>>)
                    ELSE law
    IN [original |-> citation, formatted |-> formatted, format |-> fmt]

-----------------------------------------------------------------------------
(* The citation grammar on its own: parseCitation and formatCitationTool   *)
(* are pure text transforms; a behaviour is one call on one citation.      *)

ActNames == { <<"F","o","o">>, <<"F","o","o"," ","A","c","t">>, <<"t","h","e"," ","F","o","o">>, <<"F","o","o"," ","(","N","o","."," ","2",")">> }
Numbers == { <<"5">>, <<"6","A">> }
Keywords == { W_Section, W_s, <<"s","e","c",".">>, W_Article, <<"A","r","t",".">> }

\* "Section N, <Act>", "s N, <Act>", "Section N of the <Act>", "Article N, <Act>"
LeadingCitations ==
    { Cat(<<k, <<" ">>, n, c, a>>) :
        k \in Keywords, n \in Numbers, a \in ActNames,
        c \in { <<",", " ">>, <<" ","o","f"," ","t","h","e"," ">>, <<" ","o","f"," ">> } }

\* "<Act>, Section N", "<Act> Section N", "<Act>, Article N"
TrailingCitations ==
    { Cat(<<a, c, k, <<" ">>, n>>) :
        k \in Keywords, n \in Numbers, a \in ActNames, c \in { <<",", " ">>, <<" ">> } }

\* the five shapes of the grammar
ShapeCitations == LeadingCitations \cup TrailingCitations \cup ActNames

\* a keyword and a number at both ends, and a number without a separator
MixedCitations ==
    { Cat(<<k1, <<" ", "5", ",", " ">>, <<"F","o","o">>, <<" ">>, k2, <<" ", "6">>>>) :
        k1 \in { W_Section, W_Article }, k2 \in { W_Section, W_Article, W_s } }
    \cup { Cat(<<k, <<" ", "5", " ">>, <<"F","o","o">>>>) : k \in { W_Section, W_Article } }

CitationInputs == ShapeCitations \cup MixedCitations \cup { <<>>, <<" ">> }

Formats == { "undefined", "full", "short", "pinpoint" }

ParseCitation ==
    \E citation \in CitationInputs :
        /\ call.tool = "none"
        /\ call' = [tool |-> "parseCitation", input |-> citation]
        /\ ret' = parseCitation(citation)
        /\ UNCHANGED <<legal_documents, legal_provisions>>
        /\ UNCHANGED ingestVars

FormatCitation ==
    \E citation \in CitationInputs, format \in Formats :
        /\ call.tool = "none"
        /\ call' = [tool |-> "format_citation", input |-> citation, format |-> format]
        /\ ret' = formatCitationTool(citation, format)
        /\ UNCHANGED <<legal_documents, legal_provisions>>
        /\ UNCHANGED ingestVars

InitCitation == QueryIdle /\ IngestIdle

NextCitation == ParseCitation \/ FormatCitation

SpecCitation == InitCitation /\ [][NextCitation]_vars

-----
(* Properties of the citation validator *)

Validated == call.tool = "validate_citation"

\* what the parser and the resolver make of the citation that was validated
ParsedInput == ParsedCitations[call.input]
ResolvedInput == ResolvedIds[legal_documents][ParsedInput.documentRef]
ResolvedDocument ==
    legal_documents[CHOOSE i \in 1..Len(legal_documents) : legal_documents[i].id = ResolvedInput]

\* the provision rows of document docId that match number n in one of the
\* four lookup forms 1..4: provision_ref = n, 's'+n, 'art'+n, section = n
MatchesForm(p, docId, n, form) ==
    /\ p.document_id = docId
    /\ CASE form = 1 -> p.provision_ref = n
         [] form = 2 -> p.provision_ref = <<"s">> \o n
         [] form = 3 -> p.provision_ref = <<"a","r","t">> \o n
         [] form = 4 -> p.section = n

ProvisionExists ==
    \E i \in 1..Len(legal_provisions), form \in 1..4 :
        MatchesForm(legal_provisions[i], ResolvedInput, ParsedInput.sectionRef, form)

RepealedWarning == Warning("WARNING: This statute has been repealed.", <<>>)
AmendedWarning ==
    Warning("Note: This statute has been amended. Verify you are referencing the current version.", <<>>)
SuspendedWarning ==
    Warning("Note: Certain sections of this statute have been suspended. Verify which sections are in force.", <<>>)

\* C1: an empty or whitespace-only citation is a parse failure: valid=false
\* with the one warning 'Could not parse citation format'.
C1_EmptyIsParseFailure ==
    (Validated /\ Trim(call.input) = <<>>) =>
        /\ ret.valid = FALSE
        /\ ret.warnings = <<Warning("Could not parse citation format", <<>>)>>

\* C2 as claimed: a citation resolving to a document of any status other
\* than in_force carries at least one warning.
C2_EveryNonInForceStatusWarns ==
    (Validated /\ ResolvedInput # null /\ ResolvedDocument.status # "in_force") =>
        Len(ret.warnings) >= 1

\* C2 as amended: a citation resolving to an amended, repealed or partially
\* suspended document carries at least one warning; a document that is not
\* yet in force gets no status advisory, so its result has a warning exactly
\* when it is invalid.
C2_AdvisoryForAmendedRepealedSuspended ==
    (Validated /\ ResolvedInput # null) =>
        /\ ResolvedDocument.status \in {"amended", "repealed", "partially_suspended"}
              => Len(ret.warnings) >= 1
        /\ ResolvedDocument.status = "not_yet_in_force"
              => (Len(ret.warnings) >= 1 <=> ~ret.valid)

C2_Witness ==
    /\ Validated
    /\ ResolvedInput # null
    /\ ResolvedDocument.status = "amended"
    /\ ret.valid
    /\ ret.warnings = <<AmendedWarning>>

\* C3: valid=false exactly when the citation is empty, the document reference
\* does not resolve, or a provision was parsed and no row of the resolved
\* document matches it; status warnings never change the verdict (a repealed
\* document with an existing provision is valid with the repeal warning, an
\* in_force one is valid with no warnings).
C3_VerdictDependsOnResolutionOnly ==
    Validated =>
        /\ ret.valid = ~( \/ Trim(call.input) = <<>>
                          \/ ResolvedInput = null
                          \/ (ParsedInput.sectionRef # undefined /\ ~ProvisionExists) )
        /\ (ret.valid /\ ResolvedDocument.status = "in_force") => ret.warnings = <<>>
        /\ (ret.valid /\ ResolvedDocument.status = "repealed") => ret.warnings = <<RepealedWarning>>

C3_Witness ==
    /\ Validated
    /\ ret.valid
    /\ ret.status = "repealed"
    /\ ret.provision_ref # undefined
    /\ ret.warnings = <<RepealedWarning>>

\* C4: when the document resolves and the parsed provision is in none of its
\* rows, the result is invalid, still carries the resolved document id and
\* title, and its warnings are the status advisory (for repealed, amended and
\* partially_suspended) followed by the 'Provision ... not found in' warning.
C4_ProvisionNotFoundKeepsDocumentAndAdvisory ==
    (Validated /\ ResolvedInput # null /\ ParsedInput.sectionRef # undefined /\ ~ProvisionExists) =>
        LET status == ResolvedDocument.status
            notFound == Warning("Provision not found in",
                                <<ParsedInput.sectionRef, ResolvedDocument.title>>)
        IN /\ ret.valid = FALSE
           /\ ret.document_id = ResolvedInput
           /\ ret.document_title = ResolvedDocument.title
           /\ ret.warnings =
                 (CASE status = "repealed" -> <<RepealedWarning, notFound>>
                    [] status = "amended" -> <<AmendedWarning, notFound>>
                    [] status = "partially_suspended" -> <<SuspendedWarning, notFound>>
                    [] OTHER -> <<notFound>>)

C4_Witness ==
    /\ Validated
    /\ ~ret.valid
    /\ ret.document_id # undefined
    /\ Len(ret.warnings) = 2
    /\ ret.warnings[1] = SuspendedWarning
    /\ ret.warnings[2].msg = "Provision not found in"

\* C5: with several provisions matching different lookup forms, the reported
\* provision_ref is that of the earliest form with a match, in the order
\* provision_ref = N, 's'+N, 'art'+N, section = N, whatever the row order.
C5_EarliestFormWins ==
    (Validated /\ ret.valid /\ ParsedInput.sectionRef # undefined) =>
        LET FormHasMatch(form) ==
                \E i \in 1..Len(legal_provisions) :
                    MatchesForm(legal_provisions[i], ResolvedInput, ParsedInput.sectionRef, form)
            first == CHOOSE form \in 1..4 :
                        FormHasMatch(form) /\ \A g \in 1..(form - 1) : ~FormHasMatch(g)
        IN \E i \in 1..Len(legal_provisions) :
              /\ MatchesForm(legal_provisions[i], ResolvedInput, ParsedInput.sectionRef, first)
              /\ ret.provision_ref = legal_provisions[i].provision_ref


-----------------------------------------------------------------------------
(* Properties of the document resolver *)

Resolved == call.tool = "resolveDocumentId"

\* t occurs in s as a substring
Occurs(t, s) == \E i \in 0..(Len(s) - Len(t)) : SubSeq(s, i + 1, i + Len(t)) = t

\* the documents that step k of the cascade matches for the trimmed input t
StepMatches(k, d, t) ==
    CASE k = 1 -> d.id = t
      [] k = 2 -> LOWER(d.title) = LOWER(t)
      [] k = 3 -> LOWER(d.short_name) = LOWER(t)
      [] k = 4 -> Occurs(t, d.title) \/ Occurs(t, d.short_name) \/ Occurs(t, d.title_en)
      [] k = 5 -> \/ Occurs(LOWER(t), LOWER(d.title))
                  \/ Occurs(LOWER(t), LOWER(d.short_name))
                  \/ Occurs(LOWER(t), LOWER(d.title_en))

StepFinds(k, t) == \E i \in 1..Len(legal_documents) : StepMatches(k, legal_documents[i], t)

\* C6: the result is a match of the first of the five steps (exact id, exact
\* title and exact short name ignoring case, case-sensitive substring,
\* case-insensitive substring) that matches anything, and null when no step
\* matches.
C6_FirstMatchingStepDecides ==
    (Resolved /\ Trim(call.input) # <<>>) =>
        LET t == Trim(call.input)
        IN IF \E k \in 1..5 : StepFinds(k, t)
           THEN LET first == CHOOSE k \in 1..5 :
                                StepFinds(k, t) /\ \A j \in 1..(k - 1) : ~StepFinds(j, t)
                IN \E i \in 1..Len(legal_documents) :
                      /\ StepMatches(first, legal_documents[i], t)
                      /\ ret = legal_documents[i].id
           ELSE ret = null

\* C7: the identifier returned does not depend on the row order: every store
\* holding the same documents returns the same identifier for the same input.
C7_SameResultInEveryRowOrder ==
    Resolved =>
        \A other \in Stores :
            { other[i] : i \in 1..Len(other) } = { legal_documents[i] : i \in 1..Len(legal_documents) }
                => ResolvedIds[other][call.input] = ret

-----------------------------------------------------------------------------
(* Properties of the ingestion run *)

\* the logged requests of the act that was fetched last
LastFetched == requests[Len(requests)].act
FetchLog == SelectSeq(requests, LAMBDA r : r.act = LastFetched)
FetchFinished == requests # <<>> /\ pc = "loop" /\ idx > LastFetched

\* C8 as claimed: 503 on three consecutive attempts of an act's fetch and
\* the report records 'HTTP 503' for the act.
C8_Three503AreAFailure ==
    (FetchFinished /\ Len(FetchLog) >= 3 /\ \A i \in 1..3 : FetchLog[i].status = 503) =>
        results[LastFetched].status = "HTTP 503"

\* C8 as amended: 503 on four consecutive attempts of an act's fetch (the
\* first request and its three retries) exceeds the retry ceiling: the report
\* records 'HTTP 503' for the act with no provisions, nothing is written for
\* it, the loop is at the next act and the process has not failed.
C8_Four503AreAFailure ==
    (requests # <<>> /\ Len(FetchLog) = maxRetries + 1
                     /\ \A i \in 1..(maxRetries + 1) : FetchLog[i].status = 503) =>
        /\ pc = "loop" /\ idx = LastFetched + 1
        /\ results[LastFetched] = Entry(LastFetched, 0, 0, "HTTP 503")
        /\ Len(results) = LastFetched
        /\ seedFiles[LastFetched].writer # "this run"
        /\ sourceFiles[LastFetched] # "this run"
        /\ exitCode = "none"

C8_Witness ==
    /\ FetchFinished
    /\ Len(FetchLog) = 4
    /\ \A i \in 1..4 : FetchLog[i].status = 503
    /\ results[LastFetched].status = "HTTP 503"
    /\ LastFetched < Len(acts)

\* C9: any two consecutive outbound requests are at least MIN_DELAY_MS apart.
C9_MinimumDelayBetweenRequests ==
    \A i \in 1..(Len(requests) - 1) :
        requests[i + 1].time - requests[i].time >= MIN_DELAY_MS

\* C10: no act stops the run: the status table grows by one entry per act, in
\* catalog order, and the run ends normally with every act processed.
C10_EveryActIsReported ==
    /\ pc = "loop" => Len(results) = idx - 1
    /\ pc = "done" =>
          /\ exitCode = "0"
          /\ Len(results) = Len(acts)
          /\ \A i \in 1..Len(acts) : results[i].act = acts[i]
          /\ counters.processed = Len(acts)

\* C11: an act whose seed file exists while --skip-fetch is given is skipped
\* entirely: no request goes out, no file is written, the act is reported as
\* 'cached' with the counts of the existing seed, and failed is unchanged.
C11_CachedSeedIsSkipped ==
    [][ (AtAct /\ skipFetch /\ SeedExists(idx)) =>
            /\ requests' = Latest(requests)
            /\ lastRequestTime' = lastRequestTime
            /\ seedFiles' = seedFiles
            /\ sourceFiles' = sourceFiles
            /\ results' = Append(results, Entry(acts[idx], seedFiles[idx].provisions,
                                                seedFiles[idx].definitions, "cached"))
            /\ counters'.skipped = counters.skipped + 1
            /\ counters'.failed = counters.failed ]_vars

\* C12: a failed write of an act's seed file or raw page is fatal: a run in
\* which a write failed (seen here by the seed file it cut short) does not
\* finish normally, and the act is not just one more entry of the report.
C12_WriteFailureIsFatal ==
    \A a \in 1..Len(results) :
        seedFiles[a] = BrokenSeed =>
            /\ results[a].status # "ERROR: write"
            /\ pc = "done" => exitCode = "1"

-----------------------------------------------------------------------------
(* Properties of the citation grammar *)

Formatted == call.tool = "format_citation"
ParsedOnly == call.tool = "parseCitation"

\* C13: for a citation of one of the five shapes, the 'full' rendering parses
\* to the same provision number and, after stripping a leading 'the', to the
\* same document reference as the citation itself.
C13_FullRenderingRoundTrips ==
    (Formatted /\ ret.format = "full" /\ call.input \in ShapeCitations) =>
        LET before == parseCitation(call.input)
            after == parseCitation(ret.formatted)
        IN /\ after.sectionRef = before.sectionRef
           /\ StripThe(after.documentRef) = StripThe(before.documentRef)

\* the positional rules in their order: leading section, leading article,
\* trailing section, trailing article
RulePattern(rule) ==
    CASE rule = 1 -> ParseLeading(SectionKeyword)
      [] rule = 2 -> ParseLeading(ArticleKeyword)
      [] rule = 3 -> ParseTrailing(SectionKeyword)
      [] rule = 4 -> ParseTrailing(ArticleKeyword)

RuleMatches(rule, t) == RegexMatch(RulePattern(rule), t).ok

\* what a rule extracts: a leading rule takes the number from group 1 and
\* the reference from group 2 (trimmed, a leading 'the' removed), a trailing
\* rule the reference from group 1 (trimmed) and the number from group 2
RuleExtraction(rule, t) ==
    LET m == RegexMatch(RulePattern(rule), t)
    IN IF rule <= 2
       THEN [documentRef |-> StripThe(Trim(Group(m, t, 2))), sectionRef |-> Group(m, t, 1)]
       ELSE [documentRef |-> Trim(Group(m, t, 1)), sectionRef |-> Group(m, t, 2)]

\* C14: the result of parseCitation is the extraction of the first rule, in
\* the order leading section, leading article, trailing section, trailing
\* article, that matches the trimmed input; when none matches, it is the
\* whole trimmed input with no provision reference.
C14_FirstMatchingRuleDecides ==
    ParsedOnly =>
        LET t == Trim(call.input)
        IN /\ ret.isNull = FALSE
           /\ \A rule \in 1..4 :
                 (RuleMatches(rule, t) /\ \A earlier \in 1..(rule - 1) : ~RuleMatches(earlier, t))
                    => /\ ret.documentRef = RuleExtraction(rule, t).documentRef
                       /\ ret.sectionRef = RuleExtraction(rule, t).sectionRef
           /\ (\A rule \in 1..4 : ~RuleMatches(rule, t))
                 => (ret.documentRef = t /\ ret.sectionRef = undefined)

\* 'Section 5, Foo Article 6' matches the leading section and the trailing
\* article rule and is parsed by the leading one
C14_Witness ==
    /\ ParsedOnly
    /\ RuleMatches(1, Trim(call.input))
    /\ RuleMatches(4, Trim(call.input))
    /\ ret.sectionRef = <<"5">>
    /\ ret.documentRef = <<"F","o","o"," ","A","r","t","i","c","l","e"," ","6">>

-----------------------------------------------------------------------------
(* parseKenyaLawHtml.  A page is the sequence of its akn-section markers;  *)
(* of the markup between one marker and the next the extractor reads the   *)
(* marker's id, the first <h3> heading, the length of the text that is     *)
(* left without tags, and the akn-p spans that read as definitions.        *)

MaxSections == 3

Section(id, heading, length, terms) ==
    [id |-> id, heading |-> heading, length |-> length, terms |-> terms]

SectionPool ==
    { Section(<<"s", "e", "c", "_", "1">>, <<"1", ".", " ", "S", "h", "o", "r", "t", " ", "t", "i", "t", "l", "e">>, 40, <<>>),
      Section(<<"p", "a", "r", "t", "_", "I", "I", "_", "_", "s", "e", "c", "_", "1">>, <<"1", ".", " ", "S", "c", "o", "p", "e">>, 40, <<>>),
      Section(<<"p", "a", "r", "t", "_", "I", "_", "_", "s", "e", "c", "_", "2">>, <<"2", ".", " ", "I", "n", "t", "e", "r", "p", "r", "e", "t", "a", "t", "i", "o", "n">>, 13000, <<"data", "court">>),
      Section(<<"c", "h", "p", "_", "O", "N", "E", "_", "_", "a", "r", "t", "_", "1">>, <<" ", "1", "A", ".", " ", "R", "i", "g", "h", "t", "s", " ">>, 40, <<"term">>),
      Section(<<"s", "e", "c", "_", "3">>, null, 40, <<>>),
      Section(<<"s", "e", "c", "_", "4">>, <<"P", "r", "e", "a", "m", "b", "l", "e">>, 40, <<>>),
      Section(<<"s", "e", "c", "_", "5">>, <<"5", ".", " ", "R", "e", "p", "e", "a", "l", "e", "d">>, 10, <<>>) }

Pages == Rows(SectionPool, MaxSections)

\* heading.match(/^(\d+[A-Za-z]*)\.\s/)
extractSectionNumber(heading) ==
    LET m == RegexMatch(<<Open(1), Plus("digit"), Star("alpha"), Close(1), Exact(<<".">>),
                          One("space")>>, heading)
    IN IF m.ok THEN Group(m, heading, 1) ELSE null

\* heading.replace(/^\d+[A-Za-z]*\.\s*/, '').trim()
extractSectionTitle(heading) ==
    LET m == RegexMatch(<<Plus("digit"), Star("alpha"), Exact(<<".">>), Star("space"), Open(1)>>,
                        heading)
    IN IF m.ok THEN Trim(SubSeq(heading, m.caps[1][1], Len(heading))) ELSE Trim(heading)

\* sectionId.match(/^part_([^_]+)__/), sectionId.match(/^chp_([^_]+)__/)
extractChapter(sectionId) ==
    LET partMatch == RegexMatch(<<Exact(<<"p", "a", "r", "t", "_">>), Open(1), Plus("nonunderscore"), Close(1),
                                  Exact(<<"_", "_">>)>>, sectionId)
        chpMatch == RegexMatch(<<Exact(<<"c", "h", "p", "_">>), Open(1), Plus("nonunderscore"), Close(1),
                                 Exact(<<"_", "_">>)>>, sectionId)
    IN IF partMatch.ok THEN <<"P", "a", "r", "t", " ">> \o Group(partMatch, sectionId, 1)
       ELSE IF chpMatch.ok THEN <<"C", "h", "a", "p", "t", "e", "r", " ">> \o Group(chpMatch, sectionId, 1)
       ELSE undefined

\* t occurs in s, compared as written
Includes(s, t) == \E i \in 0..(Len(s) - Len(t)) : SubSeq(s, i + 1, i + Len(t)) = t

\* isArticle ? `art${sectionNum}` : `s${sectionNum}`
ProvisionRef(id, sectionNum) ==
    IF Includes(id, <<"_", "_", "a", "r", "t", "_">>) THEN <<"a", "r", "t">> \o sectionNum ELSE <<"s">> \o sectionNum

Min(a, b) == IF a < b THEN a ELSE b

\* what one iteration of the loop over sectionStarts adds to provisions
SectionProvisions(sec) ==
    IF sec.heading = null THEN <<>>
    ELSE LET headingText == Trim(sec.heading)
             sectionNum == extractSectionNumber(headingText)
         IN IF sectionNum = null THEN <<>>
            ELSE IF sec.length > 10
            THEN << [provision_ref |-> ProvisionRef(sec.id, sectionNum),
                     chapter |-> extractChapter(sec.id),
                     section |-> sectionNum,
                     title |-> extractSectionTitle(headingText),
                     length |-> Min(sec.length, 12000)] >>
            ELSE <<>>

\* and to definitions: extractDefinitions(sectionHtml, provisionRef, definitions)
SectionDefinitions(sec) ==
    IF sec.heading = null THEN <<>>
    ELSE LET headingText == Trim(sec.heading)
             sectionNum == extractSectionNumber(headingText)
             title == extractSectionTitle(headingText)
         IN IF sectionNum = null THEN <<>>
            ELSE IF \/ Includes(LOWER(title), <<"i", "n", "t", "e", "r", "p", "r", "e", "t", "a", "t", "i", "o", "n">>)
                    \/ Includes(LOWER(title), <<"d", "e", "f", "i", "n", "i", "t", "i", "o", "n">>)
            THEN [k \in 1..Len(sec.terms) |->
                    [term |-> sec.terms[k],
                     source_provision |-> ProvisionRef(sec.id, sectionNum)]]
            ELSE <<>>

RECURSIVE CollectProvisions(_, _)
CollectProvisions(page, i) ==
    IF i > Len(page) THEN <<>>
    ELSE SectionProvisions(page[i]) \o CollectProvisions(page, i + 1)

RECURSIVE CollectDefinitions(_, _)
CollectDefinitions(page, i) ==
    IF i > Len(page) THEN <<>>
    ELSE SectionDefinitions(page[i]) \o CollectDefinitions(page, i + 1)

\* the provisions and definitions of the ParsedAct (its other fields are
\* copied from the catalog entry)
parseKenyaLawHtml(html) ==
    [provisions |-> CollectProvisions(html, 1),
     definitions |-> CollectDefinitions(html, 1)]

ParseKenyaLawHtml ==
    \E html \in Pages :
        /\ call.tool = "none"
        /\ call' = [tool |-> "parseKenyaLawHtml", input |-> html]
        /\ ret' = parseKenyaLawHtml(html)
        /\ UNCHANGED <<legal_documents, legal_provisions>>
        /\ UNCHANGED ingestVars

InitExtract == QueryIdle /\ IngestIdle

NextExtract == ParseKenyaLawHtml

SpecExtract == InitExtract /\ [][NextExtract]_vars

Extracted == call.tool = "parseKenyaLawHtml"

\* C15: no two entries of the provisions list of a ParsedAct carry the same
\* provision_ref.
C15_ProvisionRefsAreUnique ==
    Extracted =>
        \A i, j \in 1..Len(ret.provisions) :
            i # j => ret.provisions[i].provision_ref # ret.provisions[j].provision_ref

-----------------------------------------------------------------------------
(* Properties of fetchWithRateLimit *)

Retryable(status) == status = 429 \/ status >= 500

\* the requests of one fetch, while the log holds them from the first on: at
\* most maxRetries + 1, numbered from 0; every request that is followed by
\* another was answered 429 or 5xx, and the next one follows its answer
\* after 2000, 4000, 8000 ms
RetriesAreBoundedAndBackOff ==
    (requests # <<>> /\ FetchLog[1].attempt = 0) =>
        /\ Len(FetchLog) <= maxRetries + 1
        /\ \A i \in 1..Len(FetchLog) : FetchLog[i].attempt = i - 1
        /\ \A i \in 1..(Len(FetchLog) - 1) :
              /\ Retryable(FetchLog[i].status)
              /\ FetchLog[i + 1].time - (FetchLog[i].time + Latency) = 1000 * (2 ^ i)
        /\ (pc = "request" /\ LastFetched = acts[idx])
              => (Retryable(FetchLog[Len(FetchLog)].status) /\ Len(FetchLog) = attempt)

\* C16: fetchWithRateLimit retries only on 429 or a status >= 500, issues at
\* most maxRetries + 1 requests, waits 2000, 4000, 8000 ms before the
\* retries, returns any other response at once, and always terminates.
C16_RetriesAreBoundedAndTerminate ==
    /\ []RetriesAreBoundedAndBackOff
    /\ (pc = "request") ~> (pc = "loop")

C16_Witness ==
    /\ FetchFinished
    /\ Len(FetchLog) = 4
    /\ FetchLog[1].status = 503
    /\ FetchLog[2].status = 429
    /\ FetchLog[4].status = 200
    /\ FetchLog[4].time - FetchLog[1].time = 3 * Latency + 14000

-----------------------------------------------------------------------------
(* Properties of the files of an ingestion run *)

\* the entry a step adds to the status table
ActEnds == Len(results') = Len(results) + 1
NewEntry == results'[Len(results')]

\* C17: a seed file changes only in the step that ends its own act, after
\* the extractor has returned (the act ends as OK, or with the failure of
\* the write itself), and a successful write leaves exactly what the
\* extractor returned; an act ending with a non-200 response, a fetch
\* exception or an extractor exception leaves its seed file as it was, and a
\* non-200 response leaves the cached page as it was too.
C17_SeedWrittenOnlyAfterExtraction ==
    [][ /\ \A a \in 1..Len(acts) :
              seedFiles'[a] # seedFiles[a] =>
                  /\ a = idx /\ ActEnds
                  /\ NewEntry.status \in {"OK", "ERROR: write"}
                  /\ NewEntry.status = "OK" =>
                        seedFiles'[a] = WrittenSeed([provisions |-> NewEntry.provisions,
                                                     definitions |-> NewEntry.definitions])
        /\ (ActEnds /\ NewEntry.status \in {"HTTP 404", "HTTP 429", "HTTP 503",
                                            "ERROR: fetch", "ERROR: extractor"})
              => seedFiles' = seedFiles
        /\ (ActEnds /\ NewEntry.status \in {"HTTP 404", "HTTP 429", "HTTP 503"})
              => sourceFiles' = sourceFiles ]_vars

\* an act with a seed of an earlier run is fetched again, its page is
\* written, the extractor throws, and the earlier seed is still there
C17_Witness ==
    \E a \in 1..Len(results) :
        /\ results[a].status = "ERROR: extractor"
        /\ seedFiles[a] = EarlierSeed
        /\ sourceFiles[a] = "this run"

-----------------------------------------------------------------------------
(* Properties of the formatter *)

\* the formatter's patterns on the citation that was formatted
FormatterMatches(pattern) == RegexMatch(pattern, Trim(call.input)).ok
NumberFromSection ==
    FormatterMatches(FormatLeading(SectionKeyword)) \/ FormatterMatches(FormatTrailing(SectionKeyword))
NumberFromArticle ==
    /\ ~NumberFromSection
    /\ FormatterMatches(FormatLeading(ArticleKeyword)) \/ FormatterMatches(FormatTrailing(ArticleKeyword))

StartsWith(s, w) == Len(s) >= Len(w) /\ SubSeq(s, 1, Len(w)) = w

\* C18: in mode 'full' the rendering starts with 'Section' whenever the
\* number was taken from a section pattern, and with 'Article' only if it was
\* taken from an article pattern.
C18_KeywordAgreesWithPattern ==
    (Formatted /\ ret.format = "full") =>
        /\ NumberFromSection => StartsWith(ret.formatted, Cat(<<W_Section, <<" ">>>>))
        /\ (NumberFromSection \/ NumberFromArticle) =>
              (StartsWith(ret.formatted, Cat(<<W_Article, <<" ">>>>)) => NumberFromArticle)

-----------------------------------------------------------------------------
(* Soundness of the document resolver *)

\* C19: an identifier returned for input t (trimmed) is that of a document
\* whose id is t, whose title or short name equals t ignoring case, or in
\* whose title, short name or English title t occurs literally, ignoring
\* case; also when t contains % or _.
C19_ResolverIsSound ==
    (Resolved /\ ret # null) =>
        LET t == Trim(call.input)
        IN \E i \in 1..Len(legal_documents) :
              /\ legal_documents[i].id = ret
              /\ \E k \in {1, 2, 3, 5} : StepMatches(k, legal_documents[i], t)

====
